---- MODULE Spec2Model ----
(***************************************************************************)
(* DocFlow HR: the document lifecycle of the web application.              *)
(*                                                                         *)
(* The database (schema migration) holds the tables employees, documents,  *)
(* legal_holds and activity_logs.  The pages that write to it are the HR   *)
(* document review page (handleApprove / handleReject), the employee       *)
(* upload wizard (handleSubmit) and the legal-hold form (handleSubmit).    *)
(* Every handler is asynchronous: it is split at each `await`, so that     *)
(* other sessions interleave between a request and the next.               *)
(*                                                                         *)
(* Form fields that a handler only reads (select values, textareas) are    *)
(* inputs of the handler's first step: the handler captures the values of  *)
(* the render in which it was invoked.                                     *)
(*                                                                         *)
(* Free text (notes, titles, reasons) is a sequence of one-character       *)
(* strings so that String.prototype.trim is computed, not assumed.         *)
(***************************************************************************)
EXTENDS Integers, Sequences, FiniteSets, TLC

\* ------------------------------------------------------------------ bounds
MaxDocs == 2
MaxHolds == 2
MaxFiles == 2
MaxCalls == 2

\* --------------------------------------------------------------- universes
ReviewSessions == {"r1", "r2"}
EmployeeSessions == {"u1"}
HoldSessions == {"h1"}

\* SQL NULL of a free-text column, of an atomic text column, of a uuid
\* column and of a timestamp column.
NULLTEXT == <<"<null>">>
NULL == "<null>"
NULLID == 0
NULLTIME == 0

\* Contents of the Rejection Reason textarea
NoteTexts == { <<>>, <<" ">>, <<" ", "a">> }

\* Items of the document type selects; '' is the unset select value.
DocTypes == {"I-9"}

JohnEmail == "john.doe@company.com"
PlaceholderId == "11111111-1111-1111-1111-111111111111"
Reviewer == "Sarah Chen"

\* ------------------------------------------------------------ text helpers
IsSpace(c) == c = " "

RECURSIVE TrimStart(_)
TrimStart(s) ==
    IF s = <<>> THEN s
    ELSE IF IsSpace(Head(s)) THEN TrimStart(Tail(s)) ELSE s

RECURSIVE TrimEnd(_)
TrimEnd(s) ==
    IF s = <<>> THEN s
    ELSE IF IsSpace(s[Len(s)]) THEN TrimEnd(SubSeq(s, 1, Len(s) - 1)) ELSE s

\* String.prototype.trim
trim(s) == TrimEnd(TrimStart(s))

\* JavaScript truthiness of a string: only '' is falsy.
Truthy(s) == s # <<>>

\* JavaScript `a || b` on atomic strings ('' and null are falsy)
OrElse(a, b) == IF a # "" /\ a # NULL THEN a ELSE b

\* ------------------------------------------------------------------- state
VARIABLES
    employees,      \* table employees: id -> [email, department]
    documents,      \* table documents: id -> row
    legal_holds,    \* table legal_holds: id -> row
    activity_logs,  \* table activity_logs, in insertion order
    nextId,         \* gen_random_uuid(): next fresh id, per table
    now,            \* now() / new Date(): the clock
    review,         \* DocumentReviewPage component state, per browser session
    emp,            \* employee pages (submission page, UploadPage), per session
    holdForm,       \* NewLegalHoldPage component state, per session
    toast,          \* the toast the last step showed: [session, title]
    retention_policies, \* table retention_policies: set of rows
    retention,      \* the last retention computation: its inputs and result
    dbError         \* SQLSTATE of the last direct insert ("" when it succeeded)

vars == <<employees, documents, legal_holds, activity_logs, nextId, now,
          review, emp, holdForm, toast, retention_policies, retention,
          dbError>>

dbVars == <<employees, documents, legal_holds, activity_logs, nextId, now>>

retVars == <<retention_policies, retention, dbError>>

\* ------------------------------------------------------- employees (seeded)
John == [email |-> JohnEmail, department |-> "Engineering"]
Jane == [email |-> "jane@company.com", department |-> "Sales"]

\* The employees table is written by no page; it is whatever was seeded.
EmployeeTables ==
    { [e \in {"e-john"} |-> John],
      [e \in {PlaceholderId} |-> Jane] }

\* --------------------------------------------------------------- database
\* supabase .update(patch).eq('id', id): the named columns of the row with
\* that id are overwritten; no row with that id: nothing is written.
ApplyPatch(row, patch) ==
    [f \in DOMAIN row |-> IF f \in DOMAIN patch THEN patch[f] ELSE row[f]]

\* (UpdateEveryDocument: the variant without the .eq('id', id) filter.)
UpdateEveryDocument(id, patch) ==
    [d \in DOMAIN documents |-> ApplyPatch(documents[d], patch)]

UpdateDocument(id, patch) ==
    IF id \in DOMAIN documents
    THEN [documents EXCEPT ![id] = ApplyPatch(documents[id], patch)]
    ELSE documents

\* supabase.from('activity_logs').insert({...})
LogEntry(etype, eid, event, actor, role, descr) ==
    [entity_type |-> etype, entity_id |-> eid, event_type |-> event,
     actor_name |-> actor, actor_role |-> role, description |-> descr,
     created_at |-> now]

Toast(s, title, description) ==
    [session |-> s, title |-> title, description |-> description]

\* No toast is shown by the step.
NoToast == Toast("", "", <<>>)

\* ------------------------------------------------------------ review page
NoDocument == [id |-> NULLID, status |-> NULL, type |-> NULL]

NoRequest ==
    [op |-> "none", id |-> NULLID, type |-> NULL, notes |-> NULLTEXT,
     reviewed_at |-> NULLTIME]

\* useState initial values of DocumentReviewPage (pc = "closed": not mounted)
ReviewInit ==
    [pc |-> "closed", document |-> NoDocument, processing |-> FALSE,
     req |-> NoRequest]

\* The update object of handleApprove, built from the captured request.
\* (ApprovePatchWithoutReviewer: the variant that records no reviewer.)
ApprovePatchWithoutReviewer(r) ==
    [status |-> "approved", type |-> r.type]

ApprovePatch(r) ==
    [status |-> "approved", reviewed_by |-> Reviewer,
     reviewed_at |-> r.reviewed_at, type |-> r.type]

\* The update object of handleReject.
\* (RejectPatchTrimmed: the variant that stores the trimmed reason.)
RejectPatchTrimmed(r) ==
    [status |-> "rejected", reviewed_by |-> Reviewer,
     reviewed_at |-> r.reviewed_at, notes |-> trim(r.notes), type |-> r.type]

RejectPatch(r) ==
    [status |-> "rejected", reviewed_by |-> Reviewer,
     reviewed_at |-> r.reviewed_at, notes |-> r.notes, type |-> r.type]

\* The guard of handleReject: !rejectNotes.trim()
\* (RejectNotesEmpty: the variant that tests the untrimmed text.)
RejectNotesEmpty(rejectNotes) == ~Truthy(rejectNotes)

RejectNotesMissing(rejectNotes) == ~Truthy(trim(rejectNotes))

\* The Review Actions card is rendered, so the dialogs can be opened
ReviewActionsShown(s) ==
    /\ review[s].document # NoDocument
    /\ review[s].document.status # "approved"
    /\ review[s].document.status # "rejected"

\* disabled attribute of the Confirm Approval button
\* (ConfirmApprovalEnabled: the variant without the attribute.)
ConfirmApprovalEnabled(s) == FALSE

ConfirmApprovalDisabled(s) == review[s].processing

\* disabled attribute of the Confirm Rejection button
ConfirmRejectionDisabled(s, rejectNotes) ==
    review[s].processing \/ ~Truthy(trim(rejectNotes))

\* Values the Document Type select of the review page can hold: what
\* loadData put there (docData?.type || '') or an item chosen since.
DocumentTypeValues(s) == DocTypes \cup {OrElse(review[s].document.type, "")}

\* The page is mounted on /hr/documents/[id] and loadData has run: the row is
\* fetched with maybeSingle (no row: null); a failed select leaves document
\* null.
loadData(s, id, ok) ==
    /\ review[s].pc = "closed"
    /\ LET found == ok /\ id \in DOMAIN documents
       IN review' = [review EXCEPT ![s] =
              [ReviewInit EXCEPT
                 !.pc = "idle",
                 !.document = IF found
                              THEN [id |-> id,
                                    status |-> documents[id].status,
                                    type |-> documents[id].type]
                              ELSE NoDocument]]
    /\ toast' = NoToast
    /\ UNCHANGED <<dbVars, retVars, emp, holdForm>>

\* The reviewer leaves the page (the component is unmounted).
leavePage(s) ==
    /\ review[s].pc = "idle"
    /\ review' = [review EXCEPT ![s] = ReviewInit]
    /\ toast' = NoToast
    /\ UNCHANGED <<dbVars, retVars, emp, holdForm>>

\* handleApprove up to its first await: the update request is built from the
\* component state of this render and sent.  It is invoked from the approve
\* dialog, which opens from the Review Actions card.
handleApprove(s, documentType) ==
    /\ review[s].pc # "closed"
    /\ ReviewActionsShown(s)
    /\ ~ConfirmApprovalDisabled(s)
    /\ review' = [review EXCEPT
          ![s].processing = TRUE,
          ![s].pc = "updating",
          ![s].req = [op |-> "approve",
                      id |-> review[s].document.id,
                      type |-> OrElse(documentType, review[s].document.type),
                      notes |-> NULLTEXT,
                      reviewed_at |-> now]]
    /\ toast' = NoToast
    /\ UNCHANGED <<dbVars, retVars, emp, holdForm>>

\* handleReject up to its first await.  The handler carries its own check of
\* the reason (the button's disabled attribute repeats it).
handleReject(s, documentType, rejectNotes) ==
    /\ review[s].pc # "closed"
    /\ ReviewActionsShown(s)
    /\ ~review[s].processing
    /\ IF RejectNotesMissing(rejectNotes)
       THEN /\ toast' = Toast(s, "Notes required",
                            <<"Please provide a reason for rejection">>)
            /\ UNCHANGED review
       ELSE /\ review' = [review EXCEPT
                 ![s].processing = TRUE,
                 ![s].pc = "updating",
                 ![s].req = [op |-> "reject",
                             id |-> review[s].document.id,
                             type |-> OrElse(documentType,
                                             review[s].document.type),
                             notes |-> rejectNotes,
                             reviewed_at |-> now]]
            /\ toast' = NoToast
    /\ UNCHANGED <<dbVars, retVars, emp, holdForm>>

\* catch + finally of both handlers: error toast, setProcessing(false)
ReviewFailed(s, description) ==
    /\ review' = [review EXCEPT ![s].processing = FALSE, ![s].pc = "idle",
                                ![s].req = NoRequest]
    /\ toast' = Toast(s, "Error", description)

\* The documents update of handleApprove returns.
\* (approveUpdateUnchecked: the variant that does not inspect the error.)
approveUpdateUnchecked(s, ok) ==
    /\ review[s].pc = "updating"
    /\ review[s].req.op = "approve"
    /\ documents' = IF ok THEN UpdateDocument(review[s].req.id,
                                              ApprovePatch(review[s].req))
                    ELSE documents
    /\ review' = [review EXCEPT ![s].pc = "logging"]
    /\ toast' = NoToast
    /\ UNCHANGED <<retVars,
                   employees, legal_holds, activity_logs, nextId, now, emp,
                   holdForm>>

approveUpdate(s, ok) ==
    /\ review[s].pc = "updating"
    /\ review[s].req.op = "approve"
    /\ IF ok
       THEN /\ documents' = UpdateDocument(review[s].req.id,
                                           ApprovePatch(review[s].req))
            /\ review' = [review EXCEPT ![s].pc = "logging"]
            /\ toast' = NoToast
       ELSE /\ ReviewFailed(s, <<"Failed to approve document">>)
            /\ UNCHANGED documents
    /\ UNCHANGED <<retVars,
                   employees, legal_holds, activity_logs, nextId, now, emp,
                   holdForm>>

\* The documents update of handleReject returns.
rejectUpdate(s, ok) ==
    /\ review[s].pc = "updating"
    /\ review[s].req.op = "reject"
    /\ IF ok
       THEN /\ documents' = UpdateDocument(review[s].req.id,
                                           RejectPatch(review[s].req))
            /\ review' = [review EXCEPT ![s].pc = "logging"]
            /\ toast' = NoToast
       ELSE /\ ReviewFailed(s, <<"Failed to reject document">>)
            /\ UNCHANGED documents
    /\ UNCHANGED <<retVars,
                   employees, legal_holds, activity_logs, nextId, now, emp,
                   holdForm>>

\* The activity_logs insert of handleApprove returns (its result is not
\* inspected), then: success toast, dialog closed, router.push to the queue,
\* setProcessing(false).
approveLog(s, ok) ==
    /\ review[s].pc = "logging"
    /\ review[s].req.op = "approve"
    /\ IF ok
       THEN activity_logs' = Append(activity_logs,
                 LogEntry("document", review[s].req.id, "approved",
                          Reviewer, "hr_admin", <<"Document approved">>))
       ELSE UNCHANGED activity_logs
    /\ toast' = Toast(s, "Document approved", <<"The employee will be notified">>)
    /\ review' = [review EXCEPT ![s] = ReviewInit]
    /\ UNCHANGED <<retVars, employees, documents, legal_holds, nextId, now, emp,
                   holdForm>>

\* The activity_logs insert of handleReject returns.
rejectLog(s, ok) ==
    /\ review[s].pc = "logging"
    /\ review[s].req.op = "reject"
    /\ IF ok
       THEN activity_logs' = Append(activity_logs,
                 LogEntry("document", review[s].req.id, "rejected",
                          Reviewer, "hr_admin",
                          <<"Document rejected: ", review[s].req.notes>>))
       ELSE UNCHANGED activity_logs
    /\ toast' = Toast(s, "Document rejected",
                      <<"The employee will be notified to resubmit">>)
    /\ review' = [review EXCEPT ![s] = ReviewInit]
    /\ UNCHANGED <<retVars, employees, documents, legal_holds, nextId, now, emp,
                   holdForm>>

\* The review page, used by the given sessions on the given documents; Oks
\* are the outcomes of the database requests (TRUE: the request succeeds).
ReviewNextOver(Sessions, Ids, Oks) ==
    \E s \in Sessions :
        \/ \E id \in Ids, ok \in Oks : loadData(s, id, ok)
        \/ leavePage(s)
        \/ \E t \in DocumentTypeValues(s) : handleApprove(s, t)
        \/ \E t \in DocumentTypeValues(s), txt \in NoteTexts :
              handleReject(s, t, txt)
        \/ \E ok \in Oks : approveUpdate(s, ok)
        \/ \E ok \in Oks : rejectUpdate(s, ok)
        \/ \E ok \in Oks : approveLog(s, ok)
        \/ \E ok \in Oks : rejectLog(s, ok)

\* ------------------------------------------------- employee pages (upload)
\* File objects the browser can hand to handleFiles: a small PDF, an image of
\* exactly 10 MB, a PDF one byte over 10 MB and a file of another type.  The
\* MIME type is <<type, subtype>>.
FileUniverse ==
    { [name |-> "a.pdf", type |-> <<"application", "pdf">>, size |-> 1024],
      [name |-> "b.png", type |-> <<"image", "png">>,
       size |-> 10 * 1024 * 1024],
      [name |-> "c.pdf", type |-> <<"application", "pdf">>,
       size |-> 10 * 1024 * 1024 + 1],
      [name |-> "d.exe", type |-> <<"application", "x-msdownload">>,
       size |-> 10] }

PdfFile == [name |-> "a.pdf", type |-> <<"application", "pdf">>, size |-> 1024]

\* Lists of files one drop or one file-input change delivers
FileLists ==
    { <<f>> : f \in FileUniverse }
        \cup { <<f, g>> : f \in FileUniverse, g \in FileUniverse }

\* Contents of the Notes to HR textarea
UploadNotes == { <<>>, <<"n">> }

NoSubmission == [id |-> NULLID, status |-> NULL, notes |-> NULLTEXT]

\* useState initial values of UploadPage; page = "none": neither the upload
\* wizard nor a submission page is mounted.  origin is the document whose
\* submission page led here through Resubmit Document (the link carries no
\* parameter, so the wizard itself never sees it).
EmployeeInit ==
    [page |-> "none", document |-> NoSubmission, origin |-> NULLID,
     step |-> 1, files |-> <<>>, submissionId |-> NULLID, calls |-> <<>>]

\* Column defaults of CREATE TABLE documents
DocumentDefaults ==
    [employee_id |-> NULL, type |-> NULL, status |-> "received",
     source |-> "upload", file_name |-> NULL, file_size |-> 0,
     notes |-> NULLTEXT, reviewed_by |-> NULL, reviewed_at |-> NULLTIME,
     version |-> 1, original_document_id |-> NULLID, created_at |-> now]

\* The row handleSubmit inserts, from the state captured when it was invoked
\* (SubmitValuesInReview: the variant that files the document as in_review.)
SubmitValuesInReview(c) ==
    [employee_id |-> c.employeeId, type |-> c.type, status |-> "in_review",
     source |-> "upload", file_name |-> c.file_name,
     file_size |-> c.file_size, notes |-> c.notes]

SubmitValues(c) ==
    [employee_id |-> c.employeeId, type |-> c.type, status |-> "received",
     source |-> "upload", file_name |-> c.file_name,
     file_size |-> c.file_size, notes |-> c.notes]

\* employee_id uuid REFERENCES employees(id)
\* (ForeignKeyNotEnforced: the variant without the constraint.)
ForeignKeyNotEnforced(row) == TRUE

ForeignKeyOk(row) ==
    row.employee_id = NULL \/ row.employee_id \in DOMAIN employees

\* supabase.from('documents').insert(values): defaults fill the other columns
InsertDocument(id, values) ==
    [d \in DOMAIN documents \cup {id} |->
        IF d = id THEN ApplyPatch(DocumentDefaults, values) ELSE documents[d]]

RemoveAt(seq, i) ==
    [j \in 1..(Len(seq) - 1) |-> IF j < i THEN seq[j] ELSE seq[j + 1]]

\* handleSubmit calls that have not yet inserted their document
PendingInserts ==
    Cardinality({ <<u, i>> \in EmployeeSessions \X (1..MaxCalls) :
                    /\ i \in DOMAIN emp[u].calls
                    /\ emp[u].calls[i].pc = "insert" })

\* /employee/submission/[id] is opened: loadData fetches the row
loadSubmission(u, id, ok) ==
    /\ emp[u].page = "none"
    /\ LET found == ok /\ id \in DOMAIN documents
       IN emp' = [emp EXCEPT ![u] =
              [EmployeeInit EXCEPT
                 !.page = "submission",
                 !.document = IF found
                              THEN [id |-> id,
                                    status |-> documents[id].status,
                                    notes |-> documents[id].notes]
                              ELSE NoSubmission]]
    /\ toast' = NoToast
    /\ UNCHANGED <<dbVars, retVars, review, holdForm>>

\* The Document Rejected card with its Resubmit Document link is rendered
ResubmitShown(u) ==
    /\ emp[u].page = "submission"
    /\ emp[u].document.status = "rejected"
    /\ emp[u].document.notes # NULLTEXT
    /\ Truthy(emp[u].document.notes)

\* Resubmit Document: <Link href="/employee/upload">
resubmit(u) ==
    /\ ResubmitShown(u)
    /\ emp' = [emp EXCEPT ![u] =
           [EmployeeInit EXCEPT !.page = "upload",
                                !.origin = emp[u].document.id]]
    /\ toast' = NoToast
    /\ UNCHANGED <<dbVars, retVars, review, holdForm>>

\* The wizard is opened from the start or history page
openUpload(u) ==
    /\ emp[u].page = "none"
    /\ emp' = [emp EXCEPT ![u] = [EmployeeInit EXCEPT !.page = "upload"]]
    /\ toast' = NoToast
    /\ UNCHANGED <<dbVars, retVars, review, holdForm>>

\* Any link away from the current employee page
leaveEmployeePage(u) ==
    /\ emp[u].page # "none"
    /\ emp[u].calls = <<>>
    /\ emp' = [emp EXCEPT ![u] = EmployeeInit]
    /\ toast' = NoToast
    /\ UNCHANGED <<dbVars, retVars, review, holdForm>>

\* Continue / Back buttons; Continue of step 2 is disabled without files
setStep(u, n) ==
    /\ emp[u].page = "upload"
    /\ \/ emp[u].step = 1 /\ n = 2
       \/ emp[u].step = 2 /\ n = 1
       \/ emp[u].step = 2 /\ n = 3 /\ Len(emp[u].files) # 0
       \/ emp[u].step = 3 /\ n = 2
    /\ emp' = [emp EXCEPT ![u].step = n]
    /\ toast' = NoToast
    /\ UNCHANGED <<dbVars, retVars, review, holdForm>>

isValidType(file) ==
    file.type = <<"application", "pdf">> \/ file.type[1] = "image"

\* (isValidSizeBelow: the variant that refuses a file of exactly 10 MB.)
isValidSizeBelow(file) == file.size < 10 * 1024 * 1024

isValidSize(file) == file.size <= 10 * 1024 * 1024

validFiles(newFiles) ==
    SelectSeq(newFiles, LAMBDA f : isValidType(f) /\ isValidSize(f))

\* handleFiles: the valid files are appended in order, a toast is shown for
\* each rejected one
handleFiles(u, newFiles) ==
    /\ emp[u].page = "upload" /\ emp[u].step = 2
    /\ Len(emp[u].files) + Len(validFiles(newFiles)) <= MaxFiles
    /\ emp' = [emp EXCEPT ![u].files = @ \o validFiles(newFiles)]
    /\ toast' = IF validFiles(newFiles) = newFiles THEN NoToast
                ELSE LET bad == SelectSeq(newFiles,
                           LAMBDA f : ~(isValidType(f) /\ isValidSize(f)))
                         last == bad[Len(bad)]
                     IN IF ~isValidType(last)
                        THEN Toast(u, "Invalid file type",
                                   <<last.name,
                                     " is not a PDF or image file">>)
                        ELSE Toast(u, "File too large",
                                   <<last.name, " exceeds 10MB limit">>)
    /\ UNCHANGED <<dbVars, retVars, review, holdForm>>

removeFile(u, index) ==
    /\ emp[u].page = "upload" /\ emp[u].step = 2
    /\ index \in 1..Len(emp[u].files)
    /\ emp' = [emp EXCEPT ![u].files = RemoveAt(@, index)]
    /\ toast' = NoToast
    /\ UNCHANGED <<dbVars, retVars, review, holdForm>>

\* The employees lookup of handleSubmit: employeeData?.id || '1111...'; a
\* failed select leaves employeeData undefined.
lookupEmployee(ok) ==
    LET hits == { e \in DOMAIN employees : employees[e].email = JohnEmail }
    IN  IF ok /\ hits # {} THEN CHOOSE e \in hits : TRUE ELSE PlaceholderId

\* handleSubmit up to the documents insert being sent (the employees table
\* is read on the way).  The Submit Document button is never disabled, so
\* calls can overlap.
handleSubmit(u, documentType, notes, ok) ==
    /\ emp[u].page = "upload" /\ emp[u].step = 3
    /\ Len(emp[u].calls) < MaxCalls
    /\ nextId.documents + PendingInserts <= MaxDocs
    /\ emp' = [emp EXCEPT ![u].calls = Append(@,
           [pc |-> "insert", employeeId |-> lookupEmployee(ok),
            docId |-> NULLID,
            type |-> OrElse(documentType, "Other"),
            file_name |-> IF emp[u].files # <<>>
                          THEN emp[u].files[1].name ELSE "document.pdf",
            file_size |-> IF emp[u].files # <<>>
                          THEN emp[u].files[1].size ELSE 0,
            notes |-> IF Truthy(notes) THEN notes ELSE NULLTEXT])]
    /\ toast' = NoToast
    /\ UNCHANGED <<dbVars, retVars, review, holdForm>>

\* The documents insert returns; an error (also a foreign-key violation) is
\* thrown to the catch block.
submitInsert(u, i, ok) ==
    /\ i \in DOMAIN emp[u].calls
    /\ emp[u].calls[i].pc = "insert"
    /\ LET c == emp[u].calls[i]
           id == nextId.documents
       IN IF ok /\ ForeignKeyOk(SubmitValues(c))
          THEN /\ documents' = InsertDocument(id, SubmitValues(c))
               /\ nextId' = [nextId EXCEPT !.documents = id + 1]
               /\ now' = now + 1
               /\ emp' = [emp EXCEPT ![u].calls[i].docId = id,
                                     ![u].calls[i].pc = "log"]
               /\ toast' = NoToast
          ELSE /\ emp' = [emp EXCEPT ![u].calls = RemoveAt(@, i)]
               /\ toast' = Toast(u, "Submission failed", <<"Please try again">>)
               /\ UNCHANGED <<documents, nextId, now>>
    /\ UNCHANGED <<retVars,
                   employees, legal_holds, activity_logs, review, holdForm>>

\* The activity_logs insert returns (result not inspected), then
\* setSubmissionId, setStep(4) and the success toast.
submitLog(u, i, ok) ==
    /\ i \in DOMAIN emp[u].calls
    /\ emp[u].calls[i].pc = "log"
    /\ IF ok
       THEN activity_logs' = Append(activity_logs,
                 LogEntry("document", emp[u].calls[i].docId, "submitted",
                          "John Doe", "employee",
                          <<"Document submitted via upload">>))
       ELSE UNCHANGED activity_logs
    /\ emp' = [emp EXCEPT ![u].submissionId = emp[u].calls[i].docId,
                          ![u].step = 4,
                          ![u].calls = RemoveAt(@, i)]
    /\ toast' = Toast(u, "Success!", <<"Your document has been submitted">>)
    /\ UNCHANGED <<retVars,
                   employees, documents, legal_holds, nextId, now, review,
                   holdForm>>

\* The submission page; Oks are the outcomes of the database requests.
SubmissionNextOver(Oks) ==
    \E u \in EmployeeSessions :
        \/ \E id \in 1..MaxDocs, ok \in Oks : loadSubmission(u, id, ok)
        \/ resubmit(u)

\* The upload wizard, with the values the user enters drawn from the given
\* sets; overlap: Submit Document may be activated again while a call runs;
\* Oks are the outcomes of the database requests.
UploadNextOver(Types, Notes, Lists, overlap, Oks) ==
    \E u \in EmployeeSessions :
        \/ openUpload(u)
        \/ leaveEmployeePage(u)
        \/ \E n \in 1..3 : setStep(u, n)
        \/ \E fs \in Lists : handleFiles(u, fs)
        \/ \E index \in 1..MaxFiles : removeFile(u, index)
        \/ \E t \in Types, txt \in Notes, ok \in Oks :
              /\ overlap \/ emp[u].calls = <<>>
              /\ handleSubmit(u, t, txt, ok)
        \/ \E i \in 1..MaxCalls, ok \in Oks : submitInsert(u, i, ok)
        \/ \E i \in 1..MaxCalls, ok \in Oks : submitLog(u, i, ok)

\* --------------------------------------------------------- legal-hold form
\* Contents of the Title input; it is `required`, so the browser submits no
\* empty title, but it does submit a blank one.
HoldTitles == { <<" ">>, <<"T", " ">> }
HoldReasons == { <<"r", " ">> }
HoldScopes == {"all", "department", "category"}
HoldDepartments == {"Engineering"}
HoldCategories == {"I-9"}

\* SQL NULL of the uuid[] column
NULLARRAY == {NULL}

\* ------------------------------------------------ legal-hold scope matching
\* The scope a stored legal_holds row denotes, read from its scope columns.
\* The result is the set of scopes whose columns are filled in; a row with
\* none of them filled in covers all documents.
ScopesOf(hold) ==
    LET set == { sc \in {"employee-set", "department", "category",
                         "date range"} :
                   \/ sc = "employee-set" /\ hold.employee_ids # NULLARRAY
                   \/ sc = "department" /\ hold.department # NULL
                   \/ sc = "category" /\ hold.document_category # NULL
                   \/ sc = "date range" /\ (hold.date_from # NULLTIME
                                            \/ hold.date_to # NULLTIME) }
    IN  IF set = {} THEN {"all"} ELSE set

\* One matcher per scope tag
MatchesScope(scope, document, employeeId, employee, hold) ==
    CASE scope = "all" -> TRUE
      [] scope = "employee-set" -> employeeId \in hold.employee_ids
      [] scope = "department" -> employee.department = hold.department
      [] scope = "category" -> document.type = hold.document_category
      [] scope = "date range" -> /\ hold.date_from <= document.created_at
                                 /\ document.created_at <= hold.date_to

\* document_matches_hold on a stored row: every criterion the row carries
\* must be met.
document_matches_hold(document, employeeId, employee, hold) ==
    /\ hold.employee_ids # NULLARRAY => employeeId \in hold.employee_ids
    /\ hold.department # NULL => employee.department = hold.department
    /\ hold.document_category # NULL =>
           document.type = hold.document_category
    /\ (hold.date_from # NULLTIME \/ hold.date_to # NULLTIME) =>
           /\ hold.date_from <= document.created_at
           /\ document.created_at <= hold.date_to

NoHoldRequest == [data |-> << >>, title |-> NULLTEXT, id |-> NULLID]

HoldFormInit == [pc |-> "idle", processing |-> FALSE, req |-> NoHoldRequest]

\* Column defaults of CREATE TABLE legal_holds
HoldDefaults ==
    [title |-> NULLTEXT, reason |-> NULLTEXT, status |-> "active",
     created_by |-> NULL, employee_ids |-> NULLARRAY, department |-> NULL,
     document_category |-> NULL, date_from |-> NULLTIME,
     date_to |-> NULLTIME, created_at |-> now, released_at |-> NULLTIME]

\* holdData as handleSubmit builds it
\* (holdDataBothColumns: the variant that fills in every selected column.)
holdDataBothColumns(title, reason, scope, department, docCategory) ==
    [title |-> trim(title),
     reason |-> IF Truthy(trim(reason)) THEN trim(reason) ELSE NULLTEXT,
     status |-> "active", created_by |-> Reviewer,
     department |-> IF department # "" THEN department ELSE NULL,
     document_category |-> IF docCategory # "" THEN docCategory ELSE NULL]

holdData(title, reason, scope, department, docCategory) ==
    LET base == [title |-> trim(title),
                 reason |-> IF Truthy(trim(reason)) THEN trim(reason)
                            ELSE NULLTEXT,
                 status |-> "active", created_by |-> Reviewer]
    IN  IF scope = "department" /\ department # ""
        THEN [f \in DOMAIN base \cup {"department"} |->
                 IF f = "department" THEN department ELSE base[f]]
        ELSE IF scope = "category" /\ docCategory # ""
        THEN [f \in DOMAIN base \cup {"document_category"} |->
                 IF f = "document_category" THEN docCategory ELSE base[f]]
        ELSE base

\* title text NOT NULL, created_by text NOT NULL
HoldNotNullOk(row) == row.title # NULLTEXT /\ row.created_by # NULL

InsertHold(id, values) ==
    [h \in DOMAIN legal_holds \cup {id} |->
        IF h = id THEN ApplyPatch(HoldDefaults, values) ELSE legal_holds[h]]

\* The guard of the form's handleSubmit: !title.trim()
\* (HoldTitleEmpty: the variant that tests the untrimmed text.)
HoldTitleEmpty(title) == ~Truthy(title)

HoldTitleMissing(title) == ~Truthy(trim(title))

\* handleSubmit of the legal-hold form up to its first await
handleSubmitHold(h, title, reason, scope, department, docCategory) ==
    /\ holdForm[h].pc = "idle"
    /\ ~holdForm[h].processing
    /\ IF HoldTitleMissing(title)
       THEN /\ toast' = Toast(h, "Title required",
                            <<"Please provide a title for this legal hold">>)
            /\ UNCHANGED holdForm
       ELSE /\ nextId.legal_holds <= MaxHolds
            /\ holdForm' = [holdForm EXCEPT
                 ![h].processing = TRUE,
                 ![h].pc = "inserting",
                 ![h].req = [data |-> holdData(title, reason, scope,
                                               department, docCategory),
                             title |-> title, id |-> NULLID]]
            /\ toast' = NoToast
    /\ UNCHANGED <<dbVars, retVars, review, emp>>

\* The documents table with every row the hold row covers marked on_hold
MarkOnHold(row) ==
    [d \in DOMAIN documents |->
        IF /\ documents[d].employee_id \in DOMAIN employees
           /\ document_matches_hold(documents[d], documents[d].employee_id,
                                    employees[documents[d].employee_id], row)
        THEN [documents[d] EXCEPT !.status = "on_hold"]
        ELSE documents[d]]

\* The legal_holds insert returns
\* (holdInsertMarking: the variant that also marks the covered documents.)
holdInsertMarking(h, ok) ==
    /\ holdForm[h].pc = "inserting"
    /\ LET id == nextId.legal_holds
       IN IF ok /\ HoldNotNullOk(ApplyPatch(HoldDefaults, holdForm[h].req.data))
          THEN /\ legal_holds' = InsertHold(id, holdForm[h].req.data)
               /\ documents' = MarkOnHold(ApplyPatch(HoldDefaults,
                                                     holdForm[h].req.data))
               /\ nextId' = [nextId EXCEPT !.legal_holds = id + 1]
               /\ now' = now + 1
               /\ holdForm' = [holdForm EXCEPT ![h].pc = "logging",
                                               ![h].req.id = id]
               /\ toast' = NoToast
          ELSE /\ holdForm' = [holdForm EXCEPT ![h] = HoldFormInit]
               /\ toast' = Toast(h, "Error", <<"Failed to create legal hold">>)
               /\ UNCHANGED <<legal_holds, documents, nextId, now>>
    /\ UNCHANGED <<retVars, employees, activity_logs, review, emp>>

holdInsert(h, ok) ==
    /\ holdForm[h].pc = "inserting"
    /\ LET id == nextId.legal_holds
       IN IF ok /\ HoldNotNullOk(ApplyPatch(HoldDefaults, holdForm[h].req.data))
          THEN /\ legal_holds' = InsertHold(id, holdForm[h].req.data)
               /\ nextId' = [nextId EXCEPT !.legal_holds = id + 1]
               /\ now' = now + 1
               /\ holdForm' = [holdForm EXCEPT ![h].pc = "logging",
                                               ![h].req.id = id]
               /\ toast' = NoToast
          ELSE /\ holdForm' = [holdForm EXCEPT ![h] = HoldFormInit]
               /\ toast' = Toast(h, "Error", <<"Failed to create legal hold">>)
               /\ UNCHANGED <<legal_holds, nextId, now>>
    /\ UNCHANGED <<retVars, employees, documents, activity_logs, review, emp>>

\* The activity_logs insert returns (result not inspected), then the success
\* toast, router.push and setProcessing(false).
holdLog(h, ok) ==
    /\ holdForm[h].pc = "logging"
    /\ IF ok
       THEN activity_logs' = Append(activity_logs,
                 LogEntry("hold", holdForm[h].req.id, "hold_applied",
                          Reviewer, "hr_admin",
                          <<"Legal hold created: ", holdForm[h].req.title>>))
       ELSE UNCHANGED activity_logs
    /\ toast' = Toast(h, "Legal hold created",
                      <<"Documents matching this hold are now protected">>)
    /\ holdForm' = [holdForm EXCEPT ![h] = HoldFormInit]
    /\ UNCHANGED <<retVars,
                   employees, documents, legal_holds, nextId, now, review,
                   emp>>

\* The legal-hold form, with the values the user enters drawn from the given
\* sets and the request outcomes from Oks
HoldNextWith(Titles, Scopes, Departments, Categories, Oks) ==
    \E h \in HoldSessions :
        \/ \E title \in Titles, reason \in HoldReasons, scope \in Scopes,
              department \in Departments, docCategory \in Categories :
              handleSubmitHold(h, title, reason, scope, department,
                               docCategory)
        \/ \E ok \in Oks : holdInsert(h, ok)
        \/ \E ok \in Oks : holdLog(h, ok)

\* The legal-hold form with every value of the form's controls
HoldNextOver(Oks) ==
    HoldNextWith(HoldTitles, HoldScopes, HoldDepartments \cup {""},
                 HoldCategories \cup {""}, Oks)

\* Document d matches the stored hold h
Matches(d, h) ==
    /\ documents[d].employee_id \in DOMAIN employees
    /\ document_matches_hold(documents[d], documents[d].employee_id,
                             employees[documents[d].employee_id],
                             legal_holds[h])

ActiveHolds == { h \in DOMAIN legal_holds : legal_holds[h].status = "active" }

\* A document is held iff it matches at least one hold with status active
IsHeld(d) == \E h \in ActiveHolds : Matches(d, h)

\* stats.onHold of the HR dashboard, as loadDashboardData counts it
onHold == Cardinality({ d \in DOMAIN documents :
                          documents[d].status = "on_hold" })

\* release_hold: the hold becomes released; nothing is written to documents,
\* whether a document is held is evaluated by re-running the matcher.
\* (releaseEveryHold: the variant that releases all holds at once.)
releaseEveryHold(h) ==
    /\ h \in ActiveHolds
    /\ legal_holds' = [x \in DOMAIN legal_holds |->
                         [legal_holds[x] EXCEPT !.status = "released",
                                                !.released_at = now]]
    /\ toast' = NoToast
    /\ UNCHANGED <<retVars,
                   employees, documents, activity_logs, nextId, now, review,
                   emp, holdForm>>

releaseHold(h) ==
    /\ h \in ActiveHolds
    /\ legal_holds' = [legal_holds EXCEPT ![h].status = "released",
                                          ![h].released_at = now]
    /\ toast' = NoToast
    /\ UNCHANGED <<retVars,
                   employees, documents, activity_logs, nextId, now, review,
                   emp, holdForm>>

\* --------------------------------------------- deletes the database permits
\* DELETE FROM documents WHERE id = d, permitted by the policy "Allow all
\* operations on documents"; original_document_id ... ON DELETE SET NULL.
DeleteDocuments(gone) ==
    [d \in DOMAIN documents \ gone |->
        IF documents[d].original_document_id \in gone
        THEN [documents[d] EXCEPT !.original_document_id = NULLID]
        ELSE documents[d]]

DbDeleteDocument(d) ==
    /\ d \in DOMAIN documents
    /\ documents' = DeleteDocuments({d})
    /\ toast' = NoToast
    /\ UNCHANGED <<retVars, employees, legal_holds, activity_logs, nextId, now,
                   review, emp, holdForm>>

\* DELETE FROM employees WHERE id = e, permitted by the policy "Allow all
\* operations on employees"; documents.employee_id ... ON DELETE CASCADE.
DbDeleteEmployee(e) ==
    /\ e \in DOMAIN employees
    /\ employees' = [x \in DOMAIN employees \ {e} |-> employees[x]]
    /\ documents' = DeleteDocuments({ d \in DOMAIN documents :
                                        documents[d].employee_id = e })
    /\ toast' = NoToast
    /\ UNCHANGED <<retVars,
                   legal_holds, activity_logs, nextId, now, review, emp,
                   holdForm>>

\* UPDATE documents SET original_document_id = o WHERE id = d, permitted by
\* the policy "Allow all operations on documents"; the column REFERENCES
\* documents(id), so o is the id of a stored document (d itself included) or
\* null.
DbUpdateOriginalDocument(d, o) ==
    /\ d \in DOMAIN documents
    /\ o \in DOMAIN documents \cup {NULLID}
    /\ documents[d].original_document_id # o
    /\ documents' = UpdateDocument(d, [original_document_id |-> o])
    /\ toast' = NoToast
    /\ UNCHANGED <<retVars, employees, legal_holds, activity_logs, nextId,
                   now, review, emp, holdForm>>

\* DELETE FROM activity_logs WHERE id = <the k-th entry>, permitted by the
\* policy "Allow all operations on activity_logs" (FOR ALL, USING (true)).
DbDeleteActivityLog(k) ==
    /\ k \in DOMAIN activity_logs
    /\ activity_logs' = RemoveAt(activity_logs, k)
    /\ toast' = NoToast
    /\ UNCHANGED <<retVars,
                   employees, documents, legal_holds, nextId, now, review,
                   emp, holdForm>>

\* UPDATE activity_logs SET description = ... WHERE id = <the k-th entry>,
\* permitted by the same policy (WITH CHECK (true)); description is NOT NULL.
DbUpdateActivityLog(k, description) ==
    /\ k \in DOMAIN activity_logs
    /\ description # NULLTEXT
    /\ activity_logs[k].description # description
    /\ activity_logs' = [activity_logs EXCEPT ![k].description = description]
    /\ toast' = NoToast
    /\ UNCHANGED <<retVars,
                   employees, documents, legal_holds, nextId, now, review,
                   emp, holdForm>>

\* --------------------------------------------- inserts the database permits
\* Column defaults of CREATE TABLE employees
EmployeeDefaults ==
    [email |-> NULL, name |-> NULL, department |-> NULL, state |-> "FL",
     status |-> "active"]

\* What a client sends when it creates John Doe: without a work state, with
\* the work state TX, and with an explicit null
EmployeeValues ==
    { [email |-> JohnEmail, name |-> "John Doe"],
      [email |-> JohnEmail, name |-> "John Doe", state |-> "TX"],
      [email |-> JohnEmail, name |-> "John Doe", state |-> NULL] }

EmployeeIds == {"e-john", "e-new"}

\* INSERT INTO employees (<the columns of values>), permitted by the policy
\* "Allow all operations on employees"; email and name are NOT NULL (23502),
\* email is UNIQUE (23505); a column that is not named gets its default.
DbInsertEmployee(e, values) ==
    /\ e \notin DOMAIN employees
    /\ LET row == ApplyPatch(EmployeeDefaults, values)
       IN  IF row.email = NULL \/ row.name = NULL
           THEN /\ dbError' = "23502"
                /\ UNCHANGED employees
           ELSE IF \E x \in DOMAIN employees : employees[x].email = row.email
           THEN /\ dbError' = "23505"
                /\ UNCHANGED employees
           ELSE /\ dbError' = ""
                /\ employees' = [x \in DOMAIN employees \cup {e} |->
                                    IF x = e THEN row ELSE employees[x]]
    /\ toast' = NoToast
    /\ UNCHANGED <<documents, legal_holds, activity_logs, nextId, now,
                   review, emp, holdForm, retention_policies, retention>>

\* Column defaults of CREATE TABLE retention_policies
PolicyDefaults ==
    [state |-> NULL, document_type |-> NULL, retention_period_days |-> 0,
     is_override |-> FALSE]

\* Jurisdictions that have a state default, and the key of the explicit
\* global default
PolicyStates == {"TX", "FL"}

\* Retention periods in days: one day, and four years counted as 4 * 365 and
\* as 4 * 365 + 1 days
PeriodDays == {1, 4 * 365, 4 * 365 + 1}

\* INSERT INTO retention_policies (<the columns of values>), permitted by the
\* policy "Allow all operations on retention_policies"; UNIQUE(state,
\* document_type) refuses a second row with the same key (23505).
DbInsertPolicy(values) ==
    /\ LET row == ApplyPatch(PolicyDefaults, values)
       IN  IF \E p \in retention_policies :
                 /\ p.state = row.state
                 /\ p.document_type = row.document_type
           THEN /\ dbError' = "23505"
                /\ UNCHANGED retention_policies
           ELSE /\ dbError' = ""
                /\ retention_policies' = retention_policies \cup {row}
    /\ toast' = NoToast
    /\ UNCHANGED <<dbVars, review, emp, holdForm, retention>>

\* ----------------------------------------------------- retention computation
\* Calendar dates are <<year, month, day>>; a date as a count of days and
\* back (proleptic Gregorian calendar, day 0 = 1970-01-01)
NULLDATE == <<0, 0, 0>>

DaysFromCivil(date) ==
    LET y == IF date[2] <= 2 THEN date[1] - 1 ELSE date[1]
        era == y \div 400
        yoe == y - era * 400
        mp == IF date[2] > 2 THEN date[2] - 3 ELSE date[2] + 9
        doy == (153 * mp + 2) \div 5 + date[3] - 1
        doe == yoe * 365 + yoe \div 4 - yoe \div 100 + doy
    IN  era * 146097 + doe - 719468

CivilFromDays(n) ==
    LET z == n + 719468
        era == z \div 146097
        doe == z - era * 146097
        yoe == (doe - doe \div 1460 + doe \div 36524 - doe \div 146096)
                  \div 365
        doy == doe - (365 * yoe + yoe \div 4 - yoe \div 100)
        mp == (5 * doy + 2) \div 153
        d == doy - (153 * mp + 2) \div 5 + 1
        m == IF mp < 10 THEN mp + 3 ELSE mp - 9
    IN  << (yoe + era * 400) + (IF m <= 2 THEN 1 ELSE 0), m, d >>

\* anchor_date + retention_period_days, in calendar days
\* (AddDays365: the variant that counts every 365 days as one year.)
AddDays365(date, n) ==
    CivilFromDays(DaysFromCivil(<<date[1] + n \div 365, date[2], date[3]>>)
                  + (n % 365))

AddDays(date, n) == CivilFromDays(DaysFromCivil(date) + n)

\* The key under which the explicit global default is stored
GlobalState == "*"

PoliciesFor(state, type) ==
    { p \in retention_policies : p.state = state /\ p.document_type = type }

\* Policy lookup by (work_state, type): the override for the key, else the
\* jurisdiction's default, else the explicit global default; the result is
\* the set of rows found (empty: no policy is resolvable)
LookupPolicy(state, type) ==
    LET own == PoliciesFor(state, type)
        override == { p \in own : p.is_override }
    IN  IF override # {} THEN override
        ELSE IF own # {} THEN own
        ELSE PoliciesFor(GlobalState, type)

NoPolicy == [state |-> NULL, document_type |-> NULL,
             retention_period_days |-> 0, is_override |-> FALSE]

NoRetention ==
    [employee |-> NULL, type |-> NULL, anchor |-> NULLDATE,
     policy |-> NoPolicy, error |-> "", eligible_at |-> NULLDATE]

\* compute_retention_eligible_at(employee, document, policy_table), with the
\* anchor date of the policy's start event
compute_retention_eligible_at(employee, document, anchor) ==
    LET found == LookupPolicy(employee.state, document.type)
    IN  IF found = {}
        THEN [policy |-> NoPolicy, error |-> "PolicyNotFoundError",
              eligible_at |-> NULLDATE]
        ELSE LET policy == CHOOSE p \in found : TRUE
             IN  [policy |-> policy, error |-> "",
                  eligible_at |-> AddDays(anchor,
                                          policy.retention_period_days)]

\* Termination dates
Anchors == { <<2025, 6, 1>>, <<2024, 2, 28>> }

\* The retention computation for a document of employee e
computeRetention(e, type, anchor) ==
    /\ e \in DOMAIN employees
    /\ LET result == compute_retention_eligible_at(employees[e],
                                                   [type |-> type], anchor)
       IN  retention' = [employee |-> e, type |-> type, anchor |-> anchor,
                         policy |-> result.policy, error |-> result.error,
                         eligible_at |-> result.eligible_at]
    /\ toast' = NoToast
    /\ UNCHANGED <<dbVars, review, emp, holdForm, retention_policies,
                   dbError>>

\* eligibility: the stored date has passed and the document is not held
DeletionEligible(eligible_at, today, held) ==
    /\ eligible_at # NULLDATE
    /\ DaysFromCivil(today) >= DaysFromCivil(eligible_at)
    /\ ~held

RetentionInit ==
    /\ retention_policies = {}
    /\ retention = NoRetention
    /\ dbError = ""

\* ----------------------------------------------------------- specifications
\* The database before any document was submitted.
Init ==
    /\ employees \in EmployeeTables
    /\ documents = << >>
    /\ legal_holds = << >>
    /\ activity_logs = << >>
    /\ nextId = [documents |-> 1, legal_holds |-> 1]
    /\ now = 1
    /\ review = [s \in ReviewSessions |-> ReviewInit]
    /\ emp = [u \in EmployeeSessions |-> EmployeeInit]
    /\ holdForm = [h \in HoldSessions |-> HoldFormInit]
    /\ toast = NoToast
    /\ RetentionInit

\* The employee uploads documents: one PDF per file selection, with or
\* without a type and notes; Submit Document may be activated repeatedly and
\* every request may fail.
Next ==
    UploadNextOver({"", "I-9"}, UploadNotes, {<<PdfFile>>}, TRUE, BOOLEAN)

Spec == Init /\ [][Next]_vars

\* The row and the audit entry a completed handleSubmit leaves behind for the
\* d-th document, uploaded as one PDF without notes at time d.
Submitted(d, employeeId, type) ==
    ApplyPatch([DocumentDefaults EXCEPT !.created_at = d],
               SubmitValues([employeeId |-> employeeId, type |-> type,
                             file_name |-> PdfFile.name,
                             file_size |-> PdfFile.size,
                             notes |-> NULLTEXT]))

SubmittedEntry(d) ==
    [LogEntry("document", d, "submitted", "John Doe", "employee",
              <<"Document submitted via upload">>) EXCEPT !.created_at = d + 1]

\* The database after n documents were submitted, every page closed; the
\* documents belong to employees of the table, document d has type typeOf[d].
InitSubmitted(table, n, typeOf) ==
    /\ employees = table
    /\ now = n + 1
    /\ documents \in
          { [d \in 1..n |-> Submitted(d, own[d], typeOf[d])] :
               own \in [1..n -> DOMAIN table] }
    /\ legal_holds = << >>
    /\ activity_logs = [d \in 1..n |-> SubmittedEntry(d)]
    /\ nextId = [documents |-> n + 1, legal_holds |-> 1]
    /\ review = [s \in ReviewSessions |-> ReviewInit]
    /\ emp = [u \in EmployeeSessions |-> EmployeeInit]
    /\ holdForm = [h \in HoldSessions |-> HoldFormInit]
    /\ toast = NoToast
    /\ RetentionInit

JohnOnly == [e \in {"e-john"} |-> John]

\* Review: submitted documents wait in the queue; reviewer r1 works on any of
\* them while a second reviewer r2 has the first one open.
InitReview ==
    \E n \in 1..MaxDocs :
       InitSubmitted(JohnOnly, n, [d \in 1..n |-> "Other"])

NextReview ==
    \/ ReviewNextOver({"r1"}, 1..MaxDocs, BOOLEAN)
    \/ ReviewNextOver({"r2"}, {1}, BOOLEAN)

SpecReview == InitReview /\ [][NextReview]_vars

\* Resubmission: one submitted document, two reviewers who have it open, and
\* the employee, who follows its submission page and uploads again; every
\* request succeeds.
InitResubmit == InitSubmitted(JohnOnly, 1, [d \in {1} |-> "Other"])

NextResubmit ==
    \/ ReviewNextOver(ReviewSessions, {1}, {TRUE})
    \/ SubmissionNextOver({TRUE})
    \/ UploadNextOver({""}, {<<>>}, {<<PdfFile>>}, FALSE, {TRUE})

SpecResubmit == InitResubmit /\ [][NextResubmit]_vars

\* Legal holds: submitted documents of two employees (alternately an I-9 and
\* a document of type Other), holds created through the form and released,
\* and the deletes the database permits.
BothEmployees ==
    [e \in {"e-john", PlaceholderId} |-> IF e = "e-john" THEN John ELSE Jane]

InitHold ==
    \E n \in 1..MaxDocs :
       InitSubmitted(BothEmployees, n,
                     [d \in 1..n |-> IF d % 2 = 1 THEN "I-9" ELSE "Other"])

NextHold ==
    \/ HoldNextOver({TRUE})
    \/ \E h \in 1..MaxHolds : releaseHold(h)
    \/ \E d \in 1..MaxDocs : DbDeleteDocument(d)
    \/ \E e \in DOMAIN BothEmployees : DbDeleteEmployee(e)

SpecHold == InitHold /\ [][NextHold]_vars

\* The audit log: one submitted document, a reviewer who reviews it (every
\* request succeeds), and the writes the database permits on activity_logs.
InitAudit == InitSubmitted(JohnOnly, 1, [d \in {1} |-> "Other"])

NextAudit ==
    \/ ReviewNextOver({"r1"}, {1}, {TRUE})
    \/ \E k \in 1..(MaxDocs + 1) : DbDeleteActivityLog(k)
    \/ \E k \in 1..(MaxDocs + 1) : DbUpdateActivityLog(k, <<"edited">>)

SpecAudit == InitAudit /\ [][NextAudit]_vars

\* The resubmission chain: submitted documents, a reviewer who reviews the
\* first of them, and the writes to original_document_id and the deletes
\* the database permits.
InitChain ==
    \E n \in 1..MaxDocs :
       InitSubmitted(JohnOnly, n, [d \in 1..n |-> "Other"])

NextChain ==
    \/ ReviewNextOver({"r1"}, {1}, {TRUE})
    \/ \E d \in 1..MaxDocs, o \in 0..MaxDocs :
          DbUpdateOriginalDocument(d, o)
    \/ \E d \in 1..MaxDocs : DbDeleteDocument(d)

SpecChain == InitChain /\ [][NextChain]_vars

\* The four operations that write an audit entry, one page in use at a
\* time: one submitted document that a reviewer reviews, the employee who
\* uploads another one, and the legal-hold form, used for holds on all
\* documents; every request may fail.
InitOrder == InitSubmitted(JohnOnly, 1, [d \in {1} |-> "Other"])

ReviewClosed == \A s \in ReviewSessions : review[s].pc = "closed"

EmployeePagesClosed == \A u \in EmployeeSessions : emp[u].page = "none"

HoldFormIdle == \A h \in HoldSessions : holdForm[h].pc = "idle"

NextOrder ==
    \/ /\ EmployeePagesClosed /\ HoldFormIdle
       /\ ReviewNextOver({"r1"}, {1}, BOOLEAN)
    \/ /\ ReviewClosed /\ HoldFormIdle
       /\ UploadNextOver({""}, {<<>>}, {<<PdfFile>>}, FALSE, BOOLEAN)
    \/ /\ ReviewClosed /\ EmployeePagesClosed
       /\ HoldNextWith(HoldTitles, {"all"}, {""}, {""}, BOOLEAN)

SpecOrder == InitOrder /\ [][NextOrder]_vars

\* Review requests: two submitted documents, one of type Other and an I-9,
\* that two reviewers open and review; every request may fail, and
\* every request that was sent returns.
InitProcessing ==
    InitSubmitted(JohnOnly, 2, [d \in 1..2 |-> IF d = 1 THEN "Other" ELSE "I-9"])

NextProcessing == ReviewNextOver(ReviewSessions, 1..2, BOOLEAN)

RequestReturns(s) ==
    \/ \E ok \in BOOLEAN : approveUpdate(s, ok)
    \/ \E ok \in BOOLEAN : rejectUpdate(s, ok)
    \/ \E ok \in BOOLEAN : approveLog(s, ok)
    \/ \E ok \in BOOLEAN : rejectLog(s, ok)

SpecProcessing ==
    /\ InitProcessing
    /\ [][NextProcessing]_vars
    /\ \A s \in ReviewSessions : WF_vars(RequestReturns(s))

\* File selection: the employee drops or picks any one or two files of the
\* universe at a time, removes files and walks through the steps; every
\* request succeeds.
NextFiles == UploadNextOver({""}, {<<>>}, FileLists, FALSE, {TRUE})

SpecFiles == Init /\ [][NextFiles]_vars

\* Retention: employees and policies are inserted, and the retention date of
\* an I-9 or a document of another type is computed for an employee.
PolicyValues ==
    { [state |-> st, document_type |-> "I-9", retention_period_days |-> n] :
         st \in PolicyStates \cup {GlobalState}, n \in PeriodDays }
    \cup
    { [state |-> st, document_type |-> "I-9", retention_period_days |-> n,
       is_override |-> TRUE] : st \in PolicyStates, n \in PeriodDays }

InitRetention ==
    /\ employees = << >>
    /\ documents = << >>
    /\ legal_holds = << >>
    /\ activity_logs = << >>
    /\ nextId = [documents |-> 1, legal_holds |-> 1]
    /\ now = 1
    /\ review = [s \in ReviewSessions |-> ReviewInit]
    /\ emp = [u \in EmployeeSessions |-> EmployeeInit]
    /\ holdForm = [h \in HoldSessions |-> HoldFormInit]
    /\ toast = NoToast
    /\ RetentionInit

NextRetention ==
    \/ \E e \in EmployeeIds, values \in EmployeeValues :
          DbInsertEmployee(e, values)
    \/ \E values \in PolicyValues : DbInsertPolicy(values)
    \/ \E e \in EmployeeIds, type \in DocTypes \cup {"Other"},
          anchor \in Anchors : computeRetention(e, type, anchor)

SpecRetention == InitRetention /\ [][NextRetention]_vars

\* ------------------------------------------------------------- properties
\* The review metadata a review action writes besides the type
ReviewFields == {"status", "reviewed_by", "reviewed_at", "notes"}

SameReviewFields(d) ==
    \A f \in ReviewFields : documents'[d][f] = documents[d][f]

\* A step in which the documents update of a review action is applied
ReviewUpdateApplied(s) == approveUpdate(s, TRUE) \/ rejectUpdate(s, TRUE)

\* C1: a review action changes a document only when its stored status is
\* received or in_review: when the update of an approve or a reject is
\* applied, every document whose stored status is approved, rejected, expired
\* or on_hold keeps its status, reviewed_by, reviewed_at and notes.
C1_ReviewOnlyUnreviewed ==
    [][\A s \in ReviewSessions :
          ReviewUpdateApplied(s) =>
             \A d \in DOMAIN documents :
                documents[d].status \notin {"received", "in_review"} =>
                   SameReviewFields(d)]_vars

\* C2: in every reachable state every document whose status is approved has
\* both reviewed_by and reviewed_at set.
C2_ApprovedHasReviewer ==
    \A d \in DOMAIN documents :
       documents[d].status = "approved" =>
          /\ documents[d].reviewed_by # NULL
          /\ documents[d].reviewed_at # NULLTIME

\* An approved document, reviewed after another session had rejected it
C2_Witness ==
    \E d \in DOMAIN documents :
       /\ documents[d].status = "approved"
       /\ documents[d].reviewed_by = Reviewer
       /\ documents[d].notes # NULLTEXT

\* C3: reject invoked with an empty or whitespace-only reason fails: no
\* request is started, so the documents table and the audit log are exactly
\* as before the call, and the reviewer is told that notes are required.
C3_BlankReasonRejected ==
    [][\A s \in ReviewSessions, t \in DocTypes \cup {"", "Other"},
          txt \in NoteTexts :
          (handleReject(s, t, txt) /\ trim(txt) = <<>>) =>
             /\ UNCHANGED <<documents, activity_logs, review>>
             /\ toast' = Toast(s, "Notes required",
                            <<"Please provide a reason for rejection">>)]_vars

\* A reject with a blank reason was just refused while the document on the
\* page is still unreviewed
C3_Witness ==
    \E s \in ReviewSessions :
       /\ toast.session = s
       /\ toast.title = "Notes required"
       /\ review[s].pc = "idle"
       /\ review[s].document.id \in DOMAIN documents
       /\ documents[review[s].document.id].status = "received"

\* C4: after a reject with a non-blank reason r succeeds on a document, the
\* document has status rejected, notes equal to r as entered, and reviewed_by
\* and reviewed_at set.
C4_RejectStoresReason ==
    [][\A s \in ReviewSessions :
          /\ \A t \in DocTypes \cup {"", "Other"}, txt \in NoteTexts :
                (handleReject(s, t, txt) /\ trim(txt) # <<>>) =>
                   /\ review'[s].req.op = "reject"
                   /\ review'[s].req.notes = txt
          /\ rejectUpdate(s, TRUE) =>
                LET d == review[s].req.id
                IN  /\ d \in DOMAIN documents'
                    /\ documents'[d].status = "rejected"
                    /\ documents'[d].notes = review[s].req.notes
                    /\ trim(documents'[d].notes) # <<>>
                    /\ documents'[d].reviewed_by = Reviewer
                    /\ documents'[d].reviewed_at # NULLTIME]_vars

\* A document rejected with the reason " a", whose audit entry is pending
C4_Witness ==
    \E s \in ReviewSessions :
       /\ review[s].pc = "logging"
       /\ review[s].req.op = "reject"
       /\ review[s].req.id \in DOMAIN documents
       /\ documents[review[s].req.id].status = "rejected"
       /\ documents[review[s].req.id].notes = <<" ", "a">>

\* The documents insert of call i of session u succeeds in this step
SubmitInserted(u, i) ==
    /\ submitInsert(u, i, TRUE)
    /\ nextId'.documents = nextId.documents + 1

\* The step created exactly one document, with the id `id`, and left every
\* other row alone
ExactlyOneCreated(id) ==
    /\ id \notin DOMAIN documents
    /\ DOMAIN documents' = DOMAIN documents \cup {id}
    /\ \A d \in DOMAIN documents : documents'[d] = documents[d]

FreshlyReceived(row) ==
    /\ row.status = "received"
    /\ row.version = 1
    /\ row.reviewed_by = NULL
    /\ row.reviewed_at = NULLTIME

IsSubmittedEntry(entry, id) ==
    /\ entry.event_type = "submitted"
    /\ entry.entity_type = "document"
    /\ entry.entity_id = id

\* The step appended exactly one submitted entry for document id
OneSubmittedEntryAppended(id) ==
    /\ Len(activity_logs') = Len(activity_logs) + 1
    /\ SubSeq(activity_logs', 1, Len(activity_logs)) = activity_logs
    /\ IsSubmittedEntry(activity_logs'[Len(activity_logs')], id)

C6_ResubmissionLinked ==
    [][\A u \in EmployeeSessions, i \in 1..MaxCalls :
          (SubmitInserted(u, i) /\ emp[u].origin \in DOMAIN documents) =>
             LET D1 == emp[u].origin
                 D2 == nextId.documents
             IN  /\ documents'[D2].original_document_id = D1
                 /\ documents'[D2].version = documents[D1].version + 1]_vars

\* C7: a resubmission leaves the rejected predecessor untouched (after D2 is
\* submitted D1 still is rejected with the same notes, reviewed_by,
\* reviewed_at and version, and D2 starts as received), and once a document
\* is rejected no later operation changes its status.
C7_RejectedIsFinal ==
    [][/\ \A u \in EmployeeSessions, i \in 1..MaxCalls :
             (SubmitInserted(u, i) /\ emp[u].origin \in DOMAIN documents) =>
                LET D1 == emp[u].origin
                    D2 == nextId.documents
                IN  /\ documents'[D1] = documents[D1]
                    /\ documents'[D1].status = "rejected"
                    /\ documents'[D2].status = "received"
       /\ \A d \in DOMAIN documents :
             documents[d].status = "rejected" =>
                /\ d \in DOMAIN documents'
                /\ documents'[d].status = "rejected"]_vars

\* C8: a document that matches at least one legal hold with status active is
\* never deletable: no step removes such a document from the documents
\* table, neither a delete of the document nor the cascade of a delete of its
\* employee.
C8_HeldNeverDeleted ==
    [][\A d \in DOMAIN documents :
          IsHeld(d) => d \in DOMAIN documents']_vars

\* C9: releasing hold A while another active hold B still matches a document
\* leaves that document held; after the release a document is held exactly
\* when some other hold that was active matches it.
C9_ReleaseKeepsOtherHolds ==
    [][\A a \in 1..MaxHolds :
          releaseHold(a) =>
             \A d \in DOMAIN documents :
                IsHeld(d)' <=>
                   \E b \in ActiveHolds \ {a} : Matches(d, b)]_vars

\* Hold 1 was released after hold 2 had been created; hold 2 is active and a
\* document that matches both is still held
C9_Witness ==
    /\ {1, 2} \subseteq DOMAIN legal_holds
    /\ legal_holds[1].status = "released"
    /\ legal_holds[2].status = "active"
    /\ legal_holds[1].released_at > legal_holds[2].created_at
    /\ \E d \in DOMAIN documents :
          Matches(d, 1) /\ Matches(d, 2) /\ IsHeld(d)

HoldOperation ==
    \/ \E h \in HoldSessions :
          \/ \E title \in HoldTitles, reason \in HoldReasons,
                scope \in HoldScopes, department \in HoldDepartments \cup {""},
                docCategory \in HoldCategories \cup {""} :
                handleSubmitHold(h, title, reason, scope, department,
                                 docCategory)
          \/ \E ok \in BOOLEAN : holdInsert(h, ok) \/ holdLog(h, ok)
    \/ \E a \in 1..MaxHolds : releaseHold(a)

C12_MatchingShowOnHold ==
    [][\A h \in HoldSessions :
          (holdInsert(h, TRUE) /\ nextId'.legal_holds # nextId.legal_holds) =>
             LET hold == legal_holds'[nextId.legal_holds]
                 matching ==
                    { d \in DOMAIN documents :
                        /\ documents[d].employee_id \in DOMAIN employees
                        /\ document_matches_hold(
                              documents[d], documents[d].employee_id,
                              employees[documents[d].employee_id], hold) }
             IN  /\ matching \subseteq DOMAIN documents'
                 /\ \A d \in matching : documents'[d].status = "on_hold"
                 /\ onHold' >= Cardinality(matching)]_vars

\* C13: the audit log is append-only: every entry that exists in one state
\* exists unchanged, at its place in the order of insertion, in the next
\* state, whatever operation the system allows is performed.
C13_AuditAppendOnly ==
    [][/\ Len(activity_logs') >= Len(activity_logs)
       /\ \A k \in DOMAIN activity_logs :
             activity_logs'[k] = activity_logs[k]]_vars

\* The toasts that report a completed review action
ReviewSuccessTitles == {"Document approved", "Document rejected"}

\* C14: when the audit-entry insert of an approve or a reject fails after the
\* documents update has succeeded, the update is not rolled back (the
\* document keeps its new status and review metadata) and the failure is
\* surfaced: the reviewer is not shown the toast of a normal success.
C14_AuditFailureSurfaced ==
    [][\A s \in ReviewSessions :
          (approveLog(s, FALSE) \/ rejectLog(s, FALSE)) =>
             /\ documents' = documents
             /\ review[s].req.id \in DOMAIN documents =>
                   documents'[review[s].req.id].status \in
                      {"approved", "rejected"}
             /\ toast'.title \notin ReviewSuccessTitles]_vars

\* C15: when two review sessions have the same unreviewed document open and
\* both issue a review action, at most one of the two takes effect: the
\* update of a session that loaded the document unreviewed, applied after
\* another session's action has already made it approved or rejected, leaves
\* the document's status, reviewed_by, reviewed_at and notes as they are.
C15_OneReviewActionWins ==
    [][\A s \in ReviewSessions :
          LET d == review[s].req.id
          IN  ( /\ ReviewUpdateApplied(s)
                /\ d \in DOMAIN documents
                /\ review[s].document.id = d
                /\ review[s].document.status \in {"received", "in_review"}
                /\ documents[d].status \in {"approved", "rejected"} )
              => SameReviewFields(d)]_vars

\* The positions of the review audit entries (approved, rejected) of
\* document d, in the order of insertion
ReviewEntries(d) ==
    { k \in DOMAIN activity_logs :
        /\ activity_logs[k].entity_type = "document"
        /\ activity_logs[k].entity_id = d
        /\ activity_logs[k].event_type \in {"approved", "rejected"} }

\* No review action on document d is between its two requests
ReviewsSettled(d) ==
    \A s \in ReviewSessions :
       review[s].pc \in {"updating", "logging"} => review[s].req.id # d

Last(set) == CHOOSE k \in set : \A j \in set : j <= k

\* C16: the audit log reconstructs the document state whatever the race:
\* when every write succeeds and all review actions on a document have
\* completed, the document's status equals the outcome (approved or
\* rejected) of the most recently inserted review audit entry for it.
C16_LogReconstructsStatus ==
    \A d \in DOMAIN documents :
       (ReviewsSettled(d) /\ ReviewEntries(d) # {}) =>
          documents[d].status =
             activity_logs[Last(ReviewEntries(d))].event_type

\* The calendar, one day at a time
IsLeapYear(y) == (y % 4 = 0 /\ y % 100 # 0) \/ y % 400 = 0

DaysInMonth(y, m) ==
    IF m = 2 THEN (IF IsLeapYear(y) THEN 29 ELSE 28)
    ELSE IF m \in {4, 6, 9, 11} THEN 30 ELSE 31

FirstOfNextMonth(date) ==
    IF date[2] < 12 THEN <<date[1], date[2] + 1, 1>>
    ELSE <<date[1] + 1, 1, 1>>

\* The date n days after date: within the month if the month has that many
\* days left, else continued from the first of the next month
RECURSIVE CalendarDaysAfter(_, _)
CalendarDaysAfter(date, n) ==
    LET left == DaysInMonth(date[1], date[2]) - date[3]
    IN  IF n <= left THEN <<date[1], date[2], date[3] + n>>
        ELSE CalendarDaysAfter(FirstOfNextMonth(date), n - left - 1)

DateBefore(a, b) ==
    \/ a[1] < b[1]
    \/ a[1] = b[1] /\ a[2] < b[2]
    \/ a[1] = b[1] /\ a[2] = b[2] /\ a[3] < b[3]

\* Dates on which deletion eligibility is evaluated
Todays ==
    { <<2024, 2, 29>>, <<2025, 6, 1>>, <<2028, 2, 29>>, <<2029, 5, 31>>,
      <<2029, 6, 1>>, <<2029, 6, 2>> }

NoPolicyExists(state, type) ==
    ~\E p \in retention_policies :
        /\ p.document_type = type
        /\ p.state \in {state, GlobalState}

\* C18: retention computation never silently defaults: when no policy exists
\* for the employee's work state and the document type the computation
\* yields PolicyNotFoundError and stores no date; and an employee created
\* without a work state belongs to no jurisdiction (the stored work state is
\* null), so that a computation for that employee can only use an explicit
\* global default.
C18_NoSilentDefault ==
    [][/\ \A e \in EmployeeIds, type \in DocTypes \cup {"Other"},
             anchor \in Anchors :
             (computeRetention(e, type, anchor)
                 /\ NoPolicyExists(employees[e].state, type)) =>
                /\ retention'.error = "PolicyNotFoundError"
                /\ retention'.eligible_at = NULLDATE
       /\ \A e \in EmployeeIds, values \in EmployeeValues :
             (DbInsertEmployee(e, values) /\ e \in DOMAIN employees'
                 /\ "state" \notin DOMAIN values) =>
                employees'[e].state = NULL]_vars

PolicyKeys ==
    { <<p.state, p.document_type>> : p \in retention_policies }

NonOverrides(key) ==
    { p \in retention_policies :
        <<p.state, p.document_type>> = key /\ ~p.is_override }

Overrides(key) ==
    { p \in retention_policies :
        <<p.state, p.document_type>> = key /\ p.is_override }

\* C19: for every (jurisdiction, document type) key the policy table holds
\* at most one non-override policy; an is_override policy for the same key
\* can be present alongside it (inserting an override for a key that has
\* only its non-override policy succeeds and both rows are stored); and
\* whenever both are present policy lookup returns the override.
C19_OverrideAlongsideDefault ==
    [][/\ \A key \in PolicyKeys :
             /\ Cardinality(NonOverrides(key)) <= 1
             /\ (NonOverrides(key) # {} /\ Overrides(key) # {}) =>
                   LookupPolicy(key[1], key[2]) = Overrides(key)
       /\ \A values \in PolicyValues :
             LET key == <<values.state, values.document_type>>
             IN  ( /\ DbInsertPolicy(values)
                   /\ "is_override" \in DOMAIN values
                   /\ values.is_override
                   /\ NonOverrides(key) # {}
                   /\ Overrides(key) = {} )
                 => /\ dbError' = ""
                    /\ ApplyPatch(PolicyDefaults, values)
                          \in retention_policies'
                    /\ NonOverrides(key) \subseteq retention_policies']_vars

\* The document reached from d by following original_document_id k times
\* (NULLID when the chain ends before)
RECURSIVE Follow(_, _)
Follow(d, k) ==
    IF d \notin DOMAIN documents THEN NULLID
    ELSE IF k = 0 THEN d
    ELSE Follow(documents[d].original_document_id, k - 1)

\* C20: the resubmission chain is acyclic in every reachable state:
\* following original_document_id from a document never returns to it, and
\* every non-null original_document_id names a stored document that was
\* created strictly earlier and has a strictly smaller version.
C20_ChainAcyclic ==
    \A d \in DOMAIN documents :
       /\ \A k \in 1..Cardinality(DOMAIN documents) : Follow(d, k) # d
       /\ documents[d].original_document_id # NULLID =>
             LET o == documents[d].original_document_id
             IN  /\ o \in DOMAIN documents
                 /\ documents[o].created_at < documents[d].created_at
                 /\ documents[o].version < documents[d].version

EntityWritten(entry) ==
    CASE entry.event_type = "submitted" ->
            /\ entry.entity_type = "document"
            /\ entry.entity_id \in DOMAIN documents
      [] entry.event_type \in {"approved", "rejected"} ->
            /\ entry.entity_type = "document"
            /\ entry.entity_id \in DOMAIN documents
            /\ documents[entry.entity_id].status = entry.event_type
            /\ documents[entry.entity_id].reviewed_at # NULLTIME
      [] entry.event_type = "hold_applied" ->
            /\ entry.entity_type = "hold"
            /\ entry.entity_id \in DOMAIN legal_holds
      [] OTHER -> FALSE

\* C22: for submit, approve, reject and create-legal-hold the audit entry is
\* inserted only after the primary row write has succeeded: when the
\* primary insert or update returns an error the operation ends without an
\* audit entry, and every audit entry that is appended names an entity that
\* the operation has written before.
C22_AuditAfterPrimaryWrite ==
    [][/\ \A s \in ReviewSessions :
             (approveUpdate(s, FALSE) \/ rejectUpdate(s, FALSE)) =>
                /\ activity_logs' = activity_logs
                /\ review'[s].pc = "idle"
       /\ \A u \in EmployeeSessions, i \in 1..MaxCalls :
             ((\E ok \in BOOLEAN : submitInsert(u, i, ok))
                 /\ documents' = documents) =>
                /\ activity_logs' = activity_logs
                /\ emp'[u].calls = RemoveAt(emp[u].calls, i)
       /\ \A h \in HoldSessions :
             holdInsert(h, FALSE) =>
                /\ activity_logs' = activity_logs
                /\ holdForm'[h].pc = "idle"
       /\ activity_logs' # activity_logs =>
             /\ Len(activity_logs') = Len(activity_logs) + 1
             /\ EntityWritten(activity_logs'[Len(activity_logs')])]_vars

\* The log holds an entry of a second submit, of a review and of a hold,
\* and a primary write has just failed
C22_Witness ==
    /\ \E k \in DOMAIN activity_logs :
          /\ activity_logs[k].event_type = "submitted"
          /\ activity_logs[k].entity_id = 2
    /\ \E k \in DOMAIN activity_logs :
          activity_logs[k].event_type \in {"approved", "rejected"}
    /\ \E k \in DOMAIN activity_logs :
          activity_logs[k].event_type = "hold_applied"
    /\ toast.title \in {"Error", "Submission failed"}

\* C23: creating a legal hold with a whitespace-only title fails validation
\* (the browser does not submit an empty one): no request is started, so no
\* legal_holds row and no audit entry is written and the holds are as
\* before, and the user is told that the title is required; every hold that
\* is created has a non-blank title, stored trimmed, and status active.
C23_BlankTitleRefused ==
    [][/\ \A h \in HoldSessions :
             holdForm[h].pc = "idle" =>
                \A title \in HoldTitles, reason \in HoldReasons :
                   ( /\ handleSubmitHold(h, title, reason, "all", "", "")
                     /\ trim(title) = <<>> )
                   => /\ UNCHANGED <<legal_holds, activity_logs, holdForm>>
                      /\ toast'.title = "Title required"
       /\ \A id \in DOMAIN legal_holds' \ DOMAIN legal_holds :
             /\ legal_holds'[id].title # NULLTEXT
             /\ trim(legal_holds'[id].title) # <<>>
             /\ legal_holds'[id].title = trim(legal_holds'[id].title)
             /\ legal_holds'[id].status = "active"]_vars

\* A hold with the title "T" is stored, and a submit with a blank title has
\* just been refused
C23_Witness ==
    /\ toast.title = "Title required"
    /\ \E id \in DOMAIN legal_holds :
          /\ legal_holds[id].title = <<"T">>
          /\ legal_holds[id].status = "active"
    /\ \A h \in HoldSessions : holdForm[h] = HoldFormInit

\* C24: the scope chosen in the legal-hold form is never silently widened:
\* the row sent for a hold of scope department has a non-null department,
\* the row sent for a hold of scope category has a non-null
\* document_category, and only a hold of scope all has neither.
C24_ScopeNotWidened ==
    [][\A h \in HoldSessions :
          holdForm[h].pc = "idle" =>
             \A title \in HoldTitles, reason \in HoldReasons,
                scope \in HoldScopes,
                department \in HoldDepartments \cup {""},
                docCategory \in HoldCategories \cup {""} :
                ( /\ handleSubmitHold(h, title, reason, scope, department,
                                      docCategory)
                  /\ ~HoldTitleMissing(title) )
                => LET row == ApplyPatch(HoldDefaults, holdForm'[h].req.data)
                   IN  /\ scope = "department" => row.department # NULL
                       /\ scope = "category" =>
                             row.document_category # NULL
                       /\ ( /\ row.department = NULL
                            /\ row.document_category = NULL )
                          => scope = "all"]_vars

CreatedInPass(u) ==
    { emp[u].calls[j].docId :
         j \in { k \in DOMAIN emp[u].calls : emp[u].calls[k].pc = "log" } }
    \cup (IF emp[u].submissionId # NULLID THEN {emp[u].submissionId}
          ELSE {})

SubmittedEntriesOf(ids) ==
    { k \in DOMAIN activity_logs :
        /\ activity_logs[k].event_type = "submitted"
        /\ activity_logs[k].entity_id \in ids }

\* C26: one pass through the upload wizard creates at most one document row
\* and at most one submitted audit entry, also when Submit Document is
\* activated again before the first submit request has completed.
C26_OneDocumentPerPass ==
    [][\A u \in EmployeeSessions :
          emp'[u].page = "upload" =>
             /\ Cardinality(CreatedInPass(u)') <= 1
             /\ Cardinality(SubmittedEntriesOf(CreatedInPass(u))') <= 1]_vars

\* A step of session s that sends a review request
StartsRequest(s) ==
    /\ review'[s].pc = "updating"
    /\ review[s].pc # "updating" \/ review'[s].req # review[s].req

\* C27: within one review page session at most one review request is in
\* flight at a time: a request is sent only while none is in flight, while
\* one is in flight processing is true and the Confirm Approval and Confirm
\* Rejection buttons are disabled, and every started approve or reject
\* eventually sets processing back to false, whether its writes succeed or
\* fail.
C27_OneRequestInFlight ==
    /\ [](\A s \in ReviewSessions :
            /\ review[s].req # NoRequest <=> review[s].processing
            /\ review[s].processing =>
                  /\ ConfirmApprovalDisabled(s)
                  /\ \A txt \in NoteTexts : ConfirmRejectionDisabled(s, txt))
    /\ [][\A s \in ReviewSessions :
            StartsRequest(s) =>
               ~review[s].processing /\ review[s].req = NoRequest]_vars
    /\ \A s \in ReviewSessions :
          review[s].processing ~> ~review[s].processing

C27_Witness ==
    /\ review["r1"].processing /\ review["r1"].pc = "logging"
    /\ review["r2"].processing /\ review["r2"].pc = "updating"

\* A PDF or an image of at most 10 MB = 10485760 bytes
PdfOrImageUpTo10MB(file) ==
    /\ file.type = <<"application", "pdf">> \/ Head(file.type) = "image"
    /\ file.size < 10485761

\* The subsequence of files that satisfy PdfOrImageUpTo10MB
RECURSIVE Accepted(_)
Accepted(fs) ==
    IF fs = <<>> THEN <<>>
    ELSE IF PdfOrImageUpTo10MB(Head(fs))
         THEN <<Head(fs)>> \o Accepted(Tail(fs))
         ELSE Accepted(Tail(fs))

\* C28: in every state of the upload wizard every selected file is a PDF or
\* an image of at most 10 MB, and the wizard is on step 3 only while at least
\* one file is selected; adding files appends exactly the valid ones in
\* order, and removing a file deletes exactly the entry at that index.
C28_SelectedFilesValid ==
    /\ [](\A u \in EmployeeSessions :
            /\ \A i \in DOMAIN emp[u].files :
                  PdfOrImageUpTo10MB(emp[u].files[i])
            /\ emp[u].step = 3 => Len(emp[u].files) >= 1)
    /\ [][\A u \in EmployeeSessions :
            /\ \A fs \in FileLists :
                  handleFiles(u, fs) =>
                     emp'[u].files = emp[u].files \o Accepted(fs)
            /\ \A index \in 1..MaxFiles :
                  removeFile(u, index) =>
                     /\ Len(emp'[u].files) = Len(emp[u].files) - 1
                     /\ \A j \in 1..Len(emp'[u].files) :
                           emp'[u].files[j] =
                              emp[u].files[IF j < index THEN j ELSE j + 1]]_vars

C28_Witness ==
    /\ emp["u1"].step = 3
    /\ Len(emp["u1"].files) = 2
    /\ emp["u1"].files[1].name = "b.png"
    /\ emp["u1"].files[2].name = "a.pdf"

\* The documents insert of a handleSubmit call of session u returns with an
\* error
InsertFailed(u) ==
    /\ \E i \in 1..MaxCalls, ok \in BOOLEAN : submitInsert(u, i, ok)
    /\ documents' = documents

\* C29: the upload wizard is on the confirmation step only after a documents
\* insert has succeeded, and submissionId is then the id of the created
\* document; when the insert fails the wizard stays on the step it was on,
\* which is not the confirmation step, submissionId stays empty and no audit
\* entry is written.
C29_ConfirmationOnlyAfterInsert ==
    [][\A u \in EmployeeSessions :
          /\ emp'[u].step = 4 => emp'[u].submissionId \in DOMAIN documents'
          /\ InsertFailed(u) =>
                /\ emp[u].step # 4 /\ emp'[u].step = emp[u].step
                /\ emp'[u].submissionId = NULLID
                /\ activity_logs' = activity_logs]_vars

\* Columns of documents that neither review handler names in its update
UnreviewedColumns ==
    {"employee_id", "version", "original_document_id", "source", "file_name",
     "file_size", "created_at"}

\* The documents update of the request of session s is applied by the step
ReviewWrites(s) ==
    /\ review[s].pc = "updating"
    /\ review'[s].pc = "logging"

====
